---- MODULE Spec2Model ----
(***************************************************************************)
(* The Chapyter JupyterLab plugin (src/src/index.ts): the two execution    *)
(* event handlers that link a magic "trigger" cell to the code cell the    *)
(* assistant generated for it, with the helpers they call.                 *)
(*                                                                         *)
(* A cell text is a sequence of one-character strings, so that startsWith, *)
(* includes and split('\n')[0] are computed, not assumed.  Cell indices    *)
(* are 0-based as in the source; W(ws, i) reads notebook.widgets[i].       *)
(* A cell id is a number of 1..MaxId, NoCell stands for null/undefined.    *)
(*                                                                         *)
(* Assumed of the host: tracker.currentWidget is the notebook the event    *)
(* is about (never null); an event is delivered for a code cell of that    *)
(* notebook; NotebookActions.run only asks for a run, the scheduled and    *)
(* executed events of that run come as steps of their own.  The undo list  *)
(* model.deletedCells is not modelled.                                     *)
(***************************************************************************)
EXTENDS Integers, Sequences, FiniteSets, TLC

VARIABLES
    cells,      \* notebook.widgets: the sequence of cell ids
    text,       \* id -> source text
    kind,       \* id -> "code" | "markdown"
    meta,       \* id -> the ChapyterCell metadata record
    deletable,  \* id -> getMetadata('deletable') !== false
    hidden,     \* id -> inputHidden
    execCount,  \* id -> model.executionCount (0 stands for null)
    classes,    \* id -> set of marker classes
    active,     \* notebook.activeCellIndex
    selected,   \* the multi-selection (set of ids)
    status,     \* id -> where the host is with the cell's execution
    counter,    \* the kernel's next execution count
    nextId,     \* the next id the host assigns to a new cell
    edits,      \* number of user interventions made so far
    last,       \* what the last step was and which commands it issued
    probe       \* result of the last function applied on its own

vars == <<cells, text, kind, meta, deletable, hidden, execCount, classes,
          active, selected, status, counter, nextId, edits, last, probe>>

----------------------------------------------------------------------------
(* Bounds of the model *)

MaxId == 4
MaxCells == 4
MaxCount == 2
MaxEdits == 1
InitCells == 2
MaxPending == 1

NoCell == 0
Ids == 1..MaxId

----------------------------------------------------------------------------
(* Strings *)

StartsWith(s, p) ==
    /\ Len(s) >= Len(p)
    /\ SubSeq(s, 1, Len(p)) = p

Includes(s, p) ==
    \E i \in 1..(Len(s) - Len(p) + 1) : SubSeq(s, i, i + Len(p) - 1) = p

\* s.split('\n')[0]
FirstLine(s) ==
    LET nl == {i \in 1..Len(s) : s[i] = "\n"}
    IN  IF nl = {} THEN s
        ELSE SubSeq(s, 1, (CHOOSE i \in nl : \A j \in nl : i <= j) - 1)

Digit(d) == <<"0", "1", "2", "3", "4", "5", "6", "7", "8", "9">>[d + 1]

RECURSIVE Dec(_)
Dec(n) == IF n < 10 THEN <<Digit(n)>> ELSE Dec(n \div 10) \o <<Digit(n % 10)>>

ChatPrefix == <<"%", "c", "h", "a", "t">>
CellChatPrefix == <<"%", "%", "c", "h", "a", "t">>
ChatOnlyPrefix == <<"%", "%", "c", "h", "a", "t", "o", "n", "l", "y">>
SafeShort == <<"-", "s">>
SafeLong == <<"-", "-", "s", "a", "f", "e">>

TemplateHead ==
    <<"#", " ", "A", "s", "s", "i", "s", "t", "a", "n", "t", " ",
      "C", "o", "d", "e", " ", "f", "o", "r", " ", "C", "e", "l", "l", " ", "[">>

\* `# Assistant Code for Cell [${executionId}]:`
searchTempalte(executionId) == TemplateHead \o Dec(executionId) \o <<"]", ":">>

----------------------------------------------------------------------------
(* Metadata *)

NoMeta == [cellType |-> "none", linkedCellId |-> NoCell]
OriginalMeta(l) == [cellType |-> "original", linkedCellId |-> l]
GeneratedMeta(l) == [cellType |-> "generated", linkedCellId |-> l]

CHAPYTER_CHAT_CELL == "jp-chapyter-chat"
CHAPYTER_CHAT_CELL_EXECUTING == "jp-chapyter-chat-executing"
CHAPYTER_ASSISTANCE_CELL == "jp-chapyter-assistance"

W(ws, i) == ws[i + 1]
InNotebook(c) == \E i \in 1..Len(cells) : cells[i] = c

isCellNotGenerated(c) ==
    ~(kind[c] = "code" /\ meta[c].cellType = "generated")

----------------------------------------------------------------------------
(* Cell locators *)

\* the index of the first widget with the id, -1 when there is none
findCellIndexById(ws, id) ==
    LET hits == {i \in 0..(Len(ws) - 1) : W(ws, i) = id}
    IN  IF hits = {} THEN -1 ELSE CHOOSE i \in hits : \A j \in hits : i <= j

\* the first widget with the id, NoCell when there is none
findCellById(ws, id) ==
    LET hits == {i \in 0..(Len(ws) - 1) : W(ws, i) = id}
    IN  IF hits = {} THEN NoCell
        ELSE W(ws, CHOOSE i \in hits : \A j \in hits : i <= j)

\* the first code cell whose first line starts with the template of the
\* execution id; NoCell when the id is null/0 or nothing matches
findCellByTemplateString(ws, executionId) ==
    IF executionId # 0
    THEN LET hits == {i \in 0..(Len(ws) - 1) :
                        /\ kind[W(ws, i)] = "code"
                        /\ StartsWith(FirstLine(text[W(ws, i)]),
                                      searchTempalte(executionId))}
         IN  IF hits = {} THEN NoCell
             ELSE W(ws, CHOOSE i \in hits : \A j \in hits : i <= j)
    ELSE NoCell

----------------------------------------------------------------------------
(* Magic detection *)

\* faulty variant: the test of the %chat / %%chat prefix is lost
isCellChapyterMagicCell_NoPrefixTest(codeCellText, strict) ==
    IF ~StartsWith(codeCellText, ChatOnlyPrefix) \/ ~strict THEN TRUE ELSE FALSE

\* faulty variant: && where the source has ||
isCellChapyterMagicCell_And(codeCellText, strict) ==
    IF StartsWith(codeCellText, ChatPrefix) \/ StartsWith(codeCellText, CellChatPrefix)
    THEN IF ~StartsWith(codeCellText, ChatOnlyPrefix) /\ ~strict THEN TRUE ELSE FALSE
    ELSE FALSE

isCellChapyterMagicCell(codeCellText, strict) ==
    IF StartsWith(codeCellText, ChatPrefix) \/ StartsWith(codeCellText, CellChatPrefix)
    THEN IF ~StartsWith(codeCellText, ChatOnlyPrefix) \/ ~strict THEN TRUE ELSE FALSE
    ELSE FALSE

isCellChapyterMagicCellSafeMode(codeCellText) ==
    LET firstLine == FirstLine(codeCellText)
    IN  Includes(firstLine, SafeShort) \/ Includes(firstLine, SafeLong)

----------------------------------------------------------------------------
(* Host primitives: the cursor *)

\* the activeCellIndex setter clamps to the available cells (-1 if none)
Clamp(n, i) == IF n = 0 THEN -1 ELSE IF i < 0 THEN 0 ELSE IF i > n - 1 THEN n - 1 ELSE i

\* NotebookActions.selectBelow / selectAbove: one step, within the notebook
selectBelow(ws, a) == IF a = -1 THEN a ELSE Clamp(Len(ws), a + 1)
selectAbove(ws, a) == IF a = -1 THEN a ELSE Clamp(Len(ws), a - 1)

----------------------------------------------------------------------------
(* Selection navigator *)

\* the loop of line 97: i runs from the starting index to the target, the
\* cursor a moves by one host step for each i whose input is not hidden
RECURSIVE StepBelow(_, _, _, _, _)
StepBelow(ws, hid, a, i, target) ==
    IF i < target
    THEN StepBelow(ws, hid,
                   IF ~hid[W(ws, i)] THEN selectBelow(ws, a) ELSE a,
                   i + 1, target)
    ELSE a

\* the loop of line 103
RECURSIVE StepAbove(_, _, _, _, _)
StepAbove(ws, hid, a, i, target) ==
    IF i > target
    THEN StepAbove(ws, hid,
                   IF ~hid[W(ws, i)] THEN selectAbove(ws, a) ELSE a,
                   i - 1, target)
    ELSE a

\* the active index after selectCellById(notebook, id)
selectCellById(ws, hid, a, id) ==
    LET activeCellIndex == a
        targetCellIndex == findCellIndexById(ws, id)
    IN  IF targetCellIndex # -1
        THEN IF activeCellIndex # targetCellIndex
             THEN IF activeCellIndex < targetCellIndex
                  THEN StepBelow(ws, hid, a, activeCellIndex, targetCellIndex)
                  ELSE StepAbove(ws, hid, a, activeCellIndex, targetCellIndex)
             ELSE a
        ELSE a

\* how many times selectCellById calls selectBelow or selectAbove
selectCellByIdCalls(ws, hid, a, id) ==
    LET targetCellIndex == findCellIndexById(ws, id)
    IN  IF targetCellIndex # -1 /\ a # targetCellIndex
        THEN IF a < targetCellIndex
             THEN Cardinality({i \in a..(targetCellIndex - 1) : ~hid[W(ws, i)]})
             ELSE Cardinality({i \in (targetCellIndex + 1)..a : ~hid[W(ws, i)]})
        ELSE 0

----------------------------------------------------------------------------
(* Cell deleter *)

\* faulty variant: the deletable flag of the cell is not looked at
toDelete_NoFilter(ws, del, cell) ==
    {i \in 0..(Len(ws) - 1) : W(ws, i) = cell}

\* faulty variant: only the first position of the cell is collected
toDelete_FirstOnly(ws, del, cell) ==
    {i \in 0..(Len(ws) - 1) :
        W(ws, i) = cell /\ del[cell] /\ \A j \in 0..(i - 1) : W(ws, j) # cell}

\* the positions deleteCell collects, in ascending order
toDelete(ws, del, cell) ==
    {i \in 0..(Len(ws) - 1) : W(ws, i) = cell /\ del[cell]}

RemoveAt(ws, i) == SubSeq(ws, 1, i) \o SubSeq(ws, i + 2, Len(ws))

\* sharedModel.deleteCell(index) for each index of the reversed list
RECURSIVE DeleteDescending(_, _)
DeleteDescending(ws, idx) ==
    IF idx = {} THEN ws
    ELSE LET m == CHOOSE i \in idx : \A j \in idx : j <= i
         IN  DeleteDescending(RemoveAt(ws, m), idx \ {m})

\* faulty variant: toDelete[0] as if reverse() had left the list alone
ReversedHead_Unreversed(idx) == CHOOSE i \in idx : \A j \in idx : i <= j

\* toDelete[0] after toDelete.reverse(): the largest collected index
ReversedHead(idx) == CHOOSE i \in idx : \A j \in idx : j <= i

\* deleteCell(notebook, cell): the widgets, the cursor, the selection and
\* the number of transactions issued
deleteCell(ws, del, a, sel, cell) ==
    LET idx == toDelete(ws, del, cell)
        ws2 == DeleteDescending(ws, idx)
    IN  IF Cardinality(idx) > 0
        THEN [ws |-> ws2,
              active |-> Clamp(Len(ws2), ReversedHead(idx) - Cardinality(idx) + 1),
              selected |-> {},
              tx |-> 1,
              deleted |-> idx]
        ELSE [ws |-> ws, active |-> a, selected |-> {}, tx |-> 0, deleted |-> {}]

----------------------------------------------------------------------------
(* The texts of the model *)

TChat == ChatPrefix \o <<" ", "q">>
TSafe == ChatPrefix \o <<" ", "-", "s", " ", "q">>
TOnly == ChatOnlyPrefix \o <<"\n", "q">>
TPlain == <<"x", "=", "1">>
\* what the assistant backend emits for the execution count n
TGenerated(n) == searchTempalte(n) \o <<"\n", "y">>

InitTexts == {TChat, TSafe, TOnly, TPlain}
EditTexts == InitTexts \cup {TGenerated(n) : n \in 1..MaxCount}

NoCommands ==
    [run |-> {}, deleted |-> {}, tx |-> 0, found |-> NoCell, searched |-> FALSE]
UserStep == [ev |-> "user", cell |-> NoCell, ok |-> TRUE] @@ NoCommands
HandlerStep(ev, c, ok, cmds) == [ev |-> ev, cell |-> c, ok |-> ok] @@ cmds

----------------------------------------------------------------------------
(* Initial state: a notebook of InitCells code cells that never met the     *)
(* plugin, a fresh kernel, the cursor on any cell                           *)

Init ==
    /\ cells = [i \in 1..InitCells |-> i]
    /\ text \in [Ids -> InitTexts]
    /\ \A c \in Ids \ (1..InitCells) : text[c] = TPlain
    /\ kind \in [Ids -> {"code", "markdown"}]
    /\ \A c \in Ids \ (1..InitCells) : kind[c] = "code"
    /\ meta = [c \in Ids |-> NoMeta]
    /\ deletable = [c \in Ids |-> TRUE]
    /\ hidden = [c \in Ids |-> FALSE]
    /\ execCount = [c \in Ids |-> 0]
    /\ classes = [c \in Ids |-> {}]
    /\ active \in 0..(InitCells - 1)
    /\ selected = {}
    /\ status = [c \in Ids |-> "idle"]
    /\ counter = 1
    /\ nextId = InitCells + 1
    /\ edits = 0
    /\ last = UserStep
    /\ probe = <<>>

----------------------------------------------------------------------------
(* NotebookActions.executionScheduled handler *)

Toggle(S, x) == IF x \in S THEN S \ {x} ELSE S \cup {x}

\* the notebook after the handler ran for chatCell
ScheduledResult(chatCell) ==
    LET same == [ws |-> cells, active |-> active, selected |-> selected,
                 classes |-> classes, cmds |-> NoCommands]
    IN  IF isCellChapyterMagicCell(text[chatCell], FALSE) /\ isCellNotGenerated(chatCell)
        THEN LET cls == [classes EXCEPT ![chatCell] =
                            Toggle(@, CHAPYTER_CHAT_CELL_EXECUTING)]
                 linkedCellId == meta[chatCell].linkedCellId
                 linkedCell == IF linkedCellId # NoCell
                               THEN findCellById(cells, linkedCellId) ELSE NoCell
             IN  IF linkedCell # NoCell
                 THEN LET d == deleteCell(cells, deletable, active, selected, linkedCell)
                      IN  [ws |-> d.ws,
                           active |-> selectCellById(d.ws, hidden, d.active, chatCell),
                           selected |-> d.selected,
                           classes |-> cls,
                           cmds |-> [NoCommands EXCEPT
                                        !.tx = d.tx,
                                        !.deleted = IF d.tx > 0 THEN {linkedCell} ELSE {}]]
                 ELSE [same EXCEPT !.classes = cls]
        ELSE same

\* the cells whose execution is scheduled and whose executed event is to come
Pending == {c \in Ids : InNotebook(c) /\ status[c] # "idle"}

ExecutionScheduled(c) ==
    /\ InNotebook(c)
    /\ kind[c] = "code"
    /\ status[c] = "idle"
    /\ Cardinality(Pending) < MaxPending
    /\ LET r == ScheduledResult(c)
       IN  /\ cells' = r.ws
           /\ active' = r.active
           /\ selected' = r.selected
           /\ classes' = r.classes
           /\ last' = HandlerStep("scheduled", c, TRUE, r.cmds)
    /\ status' = [status EXCEPT ![c] = "scheduled"]
    /\ UNCHANGED <<text, kind, meta, deletable, hidden, execCount, counter,
                   nextId, edits, probe>>

----------------------------------------------------------------------------
(* The kernel and the assistant backend (the host's side of an execution)   *)

InsertAt(ws, i, c) == SubSeq(ws, 1, i) \o <<c>> \o SubSeq(ws, i + 1, Len(ws))

\* The kernel replies for a scheduled cell: the cell gets the execution
\* count; on success the backend may have produced a code cell that starts
\* with the template of that count, inserted right below the executed cell.
\* The cursor stays on the cell it was on.
KernelReply(c, ok, produce) ==
    /\ InNotebook(c)
    /\ status[c] = "scheduled"
    /\ counter <= MaxCount
    /\ execCount' = [execCount EXCEPT ![c] = counter]
    /\ counter' = counter + 1
    /\ status' = [status EXCEPT ![c] = IF ok THEN "ok" ELSE "failed"]
    /\ IF ok /\ produce
       THEN /\ Len(cells) < MaxCells
            /\ nextId <= MaxId
            /\ LET at == findCellIndexById(cells, c) + 1
               IN  /\ cells' = InsertAt(cells, at, nextId)
                   /\ active' = IF at <= active THEN active + 1 ELSE active
            /\ text' = [text EXCEPT ![nextId] = TGenerated(counter)]
            /\ nextId' = nextId + 1
       ELSE /\ produce = FALSE
            /\ UNCHANGED <<cells, active, text, nextId>>
    /\ last' = UserStep
    /\ UNCHANGED <<kind, meta, deletable, hidden, classes, selected, edits, probe>>

\* the cell is run while the notebook has no kernel session: the host clears
\* the execution count of the cell (null) and reports the run as done
RunWithoutKernel(c) ==
    /\ InNotebook(c)
    /\ status[c] = "scheduled"
    /\ edits < MaxEdits
    /\ execCount' = [execCount EXCEPT ![c] = 0]
    /\ status' = [status EXCEPT ![c] = "ok"]
    /\ edits' = edits + 1
    /\ last' = UserStep
    /\ UNCHANGED <<cells, text, kind, meta, deletable, hidden, classes, active,
                   selected, counter, nextId, probe>>

\* the kernel is restarted while nothing is running: counts start again at 1
KernelRestart ==
    /\ counter > 1
    /\ edits < MaxEdits
    /\ \A c \in Ids : InNotebook(c) => status[c] = "idle"
    /\ counter' = 1
    /\ edits' = edits + 1
    /\ last' = UserStep
    /\ UNCHANGED <<cells, text, kind, meta, deletable, hidden, execCount, classes,
                   active, selected, status, nextId, probe>>

----------------------------------------------------------------------------
(* NotebookActions.executed handler *)

\* NotebookActions.run(notebook): the cells the host is asked to run
RunTargets(ws, a, sel) ==
    (IF a = -1 THEN {} ELSE {W(ws, a)}) \cup {c \in sel : \E i \in 1..Len(ws) : ws[i] = c}

\* faulty variant: the record is written over one that is already there
TagOriginal_Overwrites(m, chatCell) ==
    [m EXCEPT ![chatCell] = OriginalMeta(NoCell)]

\* lines 202-206: a trigger without the record is tagged 'original'
TagOriginal(m, chatCell) ==
    IF m[chatCell] = NoMeta
    THEN [m EXCEPT ![chatCell] = OriginalMeta(NoCell)]
    ELSE m

\* faulty variant: the cell found is left without the 'generated' record
TagGenerated_NoTag(m, assistanceCell, chatCell) == m

\* lines 218-221: the cell found is tagged 'generated' and linked to the trigger
TagGenerated(m, assistanceCell, chatCell) ==
    [m EXCEPT ![assistanceCell] = GeneratedMeta(chatCell)]

\* faulty variant: the trigger is linked to its own id
LinkOriginal_ToSelf(m, chatCell, assistanceCell) ==
    [m EXCEPT ![chatCell] = OriginalMeta(chatCell)]

\* lines 258-261: the trigger is linked to the cell found
LinkOriginal(m, chatCell, assistanceCell) ==
    [m EXCEPT ![chatCell] = OriginalMeta(assistanceCell)]

\* lines 263-265: the marker classes
MarkClasses(cl, chatCell, assistanceCell) ==
    LET cl1 == [cl EXCEPT ![chatCell] =
                   (@ \cup {CHAPYTER_CHAT_CELL}) \ {CHAPYTER_CHAT_CELL_EXECUTING}]
    IN  [cl1 EXCEPT ![assistanceCell] = @ \cup {CHAPYTER_ASSISTANCE_CELL}]

\* lines 217-266: the cell with the template was found
LinkFound(m, chatCell, assistanceCell, inSafeMode) ==
    LET meta2 == TagGenerated(m, assistanceCell, chatCell)
        act1 == IF ~inSafeMode
                THEN selectCellById(cells, hidden, active, assistanceCell)
                ELSE active
        run == IF ~inSafeMode THEN RunTargets(cells, act1, selected) ELSE {}
        hid == IF ~inSafeMode THEN [hidden EXCEPT ![assistanceCell] = TRUE] ELSE hidden
        act2 == selectCellById(cells, hid, act1, assistanceCell)
        act3 == IF ~inSafeMode THEN selectBelow(cells, act2) ELSE act2
    IN  [meta |-> LinkOriginal(meta2, chatCell, assistanceCell),
         hidden |-> hid,
         active |-> act3,
         classes |-> MarkClasses(classes, chatCell, assistanceCell),
         cmds |-> [NoCommands EXCEPT !.run = run, !.found = assistanceCell,
                                     !.searched = TRUE]]

\* lines 194-268: the handler's body for a successful execution
ExecutedSuccess(chatCell) ==
    IF isCellChapyterMagicCell(text[chatCell], TRUE) /\ isCellNotGenerated(chatCell)
    THEN LET meta1 == TagOriginal(meta, chatCell)
             inSafeMode == isCellChapyterMagicCellSafeMode(text[chatCell])
             assistanceCell == findCellByTemplateString(cells, execCount[chatCell])
         IN  IF assistanceCell # NoCell
             THEN LinkFound(meta1, chatCell, assistanceCell, inSafeMode)
             ELSE [meta |-> meta1, hidden |-> hidden, active |-> active,
                   classes |-> classes,
                   cmds |-> [NoCommands EXCEPT !.searched = TRUE]]
    ELSE [meta |-> meta, hidden |-> hidden, active |-> active,
          classes |-> classes, cmds |-> NoCommands]

\* faulty variant: args.success is not looked at
ExecutedResult_IgnoresSuccess(chatCell, success) ==
    ExecutedSuccess(chatCell)

\* the notebook after the handler ran for chatCell with args.success
ExecutedResult(chatCell, success) ==
    IF success
    THEN ExecutedSuccess(chatCell)
    ELSE [meta |-> meta, hidden |-> hidden, active |-> active,
          classes |-> classes, cmds |-> NoCommands]

Executed(c) ==
    /\ InNotebook(c)
    /\ status[c] \in {"ok", "failed"}
    /\ LET r == ExecutedResult(c, status[c] = "ok")
       IN  /\ meta' = r.meta
           /\ hidden' = r.hidden
           /\ active' = r.active
           /\ classes' = r.classes
           /\ last' = HandlerStep("executed", c, status[c] = "ok", r.cmds)
    /\ status' = [status EXCEPT ![c] = "idle"]
    /\ UNCHANGED <<cells, text, kind, deletable, execCount, selected, counter,
                   nextId, edits, probe>>

----------------------------------------------------------------------------
(* The user *)

EditText(c, t) ==
    /\ InNotebook(c)
    /\ edits < MaxEdits
    /\ t # text[c]
    /\ text' = [text EXCEPT ![c] = t]
    /\ edits' = edits + 1
    /\ last' = UserStep
    /\ UNCHANGED <<cells, kind, meta, deletable, hidden, execCount, classes,
                   active, selected, status, counter, nextId, probe>>

\* the cell's 'deletable' metadata is set to false in the metadata editor
SetUndeletable(c) ==
    /\ InNotebook(c)
    /\ edits < MaxEdits
    /\ deletable[c]
    /\ deletable' = [deletable EXCEPT ![c] = FALSE]
    /\ edits' = edits + 1
    /\ last' = UserStep
    /\ UNCHANGED <<cells, text, kind, meta, hidden, execCount, classes,
                   active, selected, status, counter, nextId, probe>>

\* the input region of a cell is collapsed or expanded
ToggleInput(c) ==
    /\ InNotebook(c)
    /\ edits < MaxEdits
    /\ hidden' = [hidden EXCEPT ![c] = ~@]
    /\ edits' = edits + 1
    /\ last' = UserStep
    /\ UNCHANGED <<cells, text, kind, meta, deletable, execCount, classes,
                   active, selected, status, counter, nextId, probe>>

\* another cell is clicked
MoveCursor(i) ==
    /\ i \in 0..(Len(cells) - 1)
    /\ i # active
    /\ active' = i
    /\ last' = UserStep
    /\ UNCHANGED <<cells, text, kind, meta, deletable, hidden, execCount, classes,
                   selected, status, counter, nextId, edits, probe>>

----------------------------------------------------------------------------

Next ==
    \/ \E c \in Ids : ExecutionScheduled(c)
    \/ \E c \in Ids, ok \in BOOLEAN, produce \in BOOLEAN : KernelReply(c, ok, produce)
    \/ \E c \in Ids : RunWithoutKernel(c)
    \/ \E c \in Ids : Executed(c)
    \/ KernelRestart
    \/ \E c \in Ids, t \in EditTexts : EditText(c, t)
    \/ \E c \in Ids : SetUndeletable(c)
    \/ \E c \in Ids : ToggleInput(c)
    \/ \E i \in 0..(MaxCells - 1) : MoveCursor(i)

Spec == Init /\ [][Next]_vars

----------------------------------------------------------------------------
(* The functions on their own: each specification below draws the inputs    *)
(* of one function in its initial state and applies the function once.      *)

\* everything but the inputs a function reads
RestIsBlank ==
    /\ kind = [c \in Ids |-> "code"]
    /\ meta = [c \in Ids |-> NoMeta]
    /\ hidden = [c \in Ids |-> FALSE]
    /\ execCount = [c \in Ids |-> 0]
    /\ classes = [c \in Ids |-> {}]
    /\ status = [c \in Ids |-> "idle"]
    /\ counter = 1
    /\ nextId = MaxId + 1
    /\ edits = 0
    /\ last = UserStep
    /\ probe = <<>>

(* isCellChapyterMagicCell: the cell texts are the beginnings of the three  *)
(* prefixes, alone or behind another character, each with several endings   *)

PrefixesOf(p) == {SubSeq(p, 1, n) : n \in 0..Len(p)}
ProbeHeads ==
    LET heads == PrefixesOf(ChatOnlyPrefix) \cup PrefixesOf(ChatPrefix)
    IN  heads \cup {<<"x">> \o h : h \in {ChatPrefix, CellChatPrefix, ChatOnlyPrefix}}
ProbeTails == {<<>>, <<"o">>, <<" ", "q">>, <<"\n", "%", "c", "h", "a", "t">>}
ProbeTexts == {h \o t : h \in ProbeHeads, t \in ProbeTails}

InitMagic ==
    /\ cells = <<1>>
    /\ \E t \in ProbeTexts : text = [c \in Ids |-> IF c = 1 THEN t ELSE TPlain]
    /\ deletable = [c \in Ids |-> TRUE]
    /\ active = 0
    /\ selected = {}
    /\ RestIsBlank

ClassifyCell ==
    /\ probe = <<>>
    /\ probe' = [fn |-> "isCellChapyterMagicCell",
                 loose |-> isCellChapyterMagicCell(text[1], FALSE),
                 strict |-> isCellChapyterMagicCell(text[1], TRUE)]
    /\ UNCHANGED <<cells, text, kind, meta, deletable, hidden, execCount, classes,
                   active, selected, status, counter, nextId, edits, last>>

SpecMagic == InitMagic /\ [][ClassifyCell]_vars

(* deleteCell: the function collects every position of the widget list      *)
(* that holds the cell, so the list is drawn with repeated entries too; the  *)
(* handlers only ever pass it a list without repetition, and a cell other   *)
(* than the one that executes, so the list has two cells at least           *)

MaxWidgets == 5
ProbeCells == 1..3

InitDelete ==
    /\ \E n \in 2..MaxWidgets : cells \in [1..n -> ProbeCells]
    /\ text = [c \in Ids |-> TPlain]
    /\ \E d \in BOOLEAN : deletable = [c \in Ids |-> IF c = 1 THEN d ELSE TRUE]
    /\ active \in 0..(Len(cells) - 1)
    /\ selected \in {{}, {cells[1]}}
    /\ RestIsBlank

ApplyDeleteCell(cell) ==
    /\ probe = <<>>
    /\ InNotebook(cell)
    /\ LET d == deleteCell(cells, deletable, active, selected, cell)
       IN  /\ cells' = d.ws
           /\ active' = d.active
           /\ selected' = d.selected
           /\ probe' = [fn |-> "deleteCell", cell |-> cell, before |-> cells,
                        cursor |-> active, selection |-> selected,
                        deleted |-> d.deleted, tx |-> d.tx]
    /\ UNCHANGED <<text, kind, meta, deletable, hidden, execCount, classes,
                   status, counter, nextId, edits, last>>

SpecDelete == InitDelete /\ [][\E cell \in ProbeCells : ApplyDeleteCell(cell)]_vars

(* selectCellById: a notebook of distinct cells, any of them with a hidden   *)
(* input, the cursor on any cell, the id of any cell or of none             *)

InitSelect ==
    /\ \E n \in 1..MaxId : cells = [i \in 1..n |-> i]
    /\ text = [c \in Ids |-> TPlain]
    /\ deletable = [c \in Ids |-> TRUE]
    /\ active \in 0..(Len(cells) - 1)
    /\ selected = {}
    /\ kind = [c \in Ids |-> "code"]
    /\ meta = [c \in Ids |-> NoMeta]
    /\ hidden \in [Ids -> BOOLEAN]
    /\ \A c \in Ids : ~InNotebook(c) => ~hidden[c]
    /\ execCount = [c \in Ids |-> 0]
    /\ classes = [c \in Ids |-> {}]
    /\ status = [c \in Ids |-> "idle"]
    /\ counter = 1
    /\ nextId = MaxId + 1
    /\ edits = 0
    /\ last = UserStep
    /\ probe = <<>>

ApplySelectCellById(id) ==
    /\ probe = <<>>
    /\ active' = selectCellById(cells, hidden, active, id)
    /\ probe' = [fn |-> "selectCellById", id |-> id, cursor |-> active,
                 calls |-> selectCellByIdCalls(cells, hidden, active, id)]
    /\ UNCHANGED <<cells, text, kind, meta, deletable, hidden, execCount, classes,
                   selected, status, counter, nextId, edits, last>>

SpecSelect == InitSelect /\ [][\E id \in Ids : ApplySelectCellById(id)]_vars

----------------------------------------------------------------------------
(* Vocabulary of the properties *)

Present == {cells[i] : i \in 1..Len(cells)}

\* the generated cells of the notebook that are linked to the trigger t
GeneratedFor(t) ==
    {g \in Present : meta[g].cellType = "generated" /\ meta[g].linkedCellId = t}

\* this step is the scheduled handler, resp. the executed handler, run for c
ScheduledStep(c) == status[c] = "idle" /\ status'[c] = "scheduled"
ExecutedStep(c) == status[c] \in {"ok", "failed"} /\ status'[c] = "idle"

\* the text starts with %chat or with %%chat
StartsWithMagic(t) == StartsWith(t, ChatPrefix) \/ StartsWith(t, CellChatPrefix)

----------------------------------------------------------------------------
(* C1: for every trigger cell of the notebook, at most one cell of the      *)
(* notebook is tagged 'generated' and linked to it.                         *)

AtMostOneGeneratedPerTrigger ==
    \A t \in Present : Cardinality(GeneratedFor(t)) <= 1

(* C2: right after the executed handler linked a trigger T to the cell G    *)
(* it found, T carries {original, G} and G carries {generated, T}.          *)

LinkIsBidirectional ==
    (last.ev = "executed" /\ last.ok /\ last.found # NoCell)
        => /\ meta[last.cell] = OriginalMeta(last.found)
           /\ meta[last.found] = GeneratedMeta(last.cell)

LinkMade ==
    /\ last.ev = "executed" /\ last.ok /\ last.found # NoCell
    /\ isCellChapyterMagicCell(text[last.cell], TRUE)
    /\ last.found \in Present

(* C3: between handler invocations the link is symmetric or absent: a       *)
(* trigger T names g exactly when g is in the notebook and names T.         *)

LinkSymmetricOrAbsent ==
    \A t \in Present : \A g \in Ids :
        meta[t].cellType = "original"
            => (meta[t].linkedCellId = g
                    <=> (g \in Present /\ meta[g].linkedCellId = t))

(* C4: every generated cell of the notebook names a cell of the notebook    *)
(* (no step of the model deletes a cell but the scheduled handler).         *)

GeneratedLinkNamesPresentCell ==
    \A g \in Present :
        meta[g].cellType = "generated" => meta[g].linkedCellId \in Present

(* C5: when the scheduled handler runs for a non-generated magic trigger    *)
(* whose linkedCellId names a cell of the notebook, that cell is gone at    *)
(* the end of the handler, and a cell that is gone never comes back.        *)

StaleCellAbsentAfterScheduled ==
    [][/\ \A t \in Ids :
            (/\ ScheduledStep(t)
             /\ isCellChapyterMagicCell(text[t], FALSE)
             /\ isCellNotGenerated(t)
             /\ InNotebook(meta[t].linkedCellId))
                => \A i \in 1..Len(cells') : cells'[i] # meta[t].linkedCellId
       /\ \A c \in Ids :
            (c < nextId /\ ~InNotebook(c)) => \A i \in 1..Len(cells') : cells'[i] # c
      ]_vars

(* C6: an executed event with success = false changes nothing of the        *)
(* notebook and issues no command: no metadata write, no search, the same   *)
(* cells, the same cursor, the same inputHidden flags.                      *)

FailedExecutionChangesNothing ==
    [][\A c \in Ids :
          (ExecutedStep(c) /\ status[c] = "failed")
              => /\ UNCHANGED <<cells, text, kind, meta, deletable, hidden,
                                execCount, classes, active, selected>>
                 /\ last'.searched = FALSE
                 /\ last'.found = NoCell
                 /\ last'.run = {}
                 /\ last'.tx = 0
      ]_vars

\* a failed execution of a strict trigger whose template is in the notebook
FailedWhereSuccessWouldLink ==
    /\ last.ev = "executed" /\ ~last.ok
    /\ isCellChapyterMagicCell(text[last.cell], TRUE)
    /\ isCellNotGenerated(last.cell)
    /\ findCellByTemplateString(cells, execCount[last.cell]) # NoCell

(* C7: for a code cell whose text starts with neither %chat nor %%chat,     *)
(* the scheduled and the executed handler change nothing: no metadata       *)
(* write, no deletion, no cursor movement, no marker class toggled.         *)

NonMagicCellChangesNothing ==
    [][\A c \in Ids :
          (/\ ScheduledStep(c) \/ ExecutedStep(c)
           /\ kind[c] = "code"
           /\ ~StartsWithMagic(text[c]))
              => /\ UNCHANGED <<cells, text, kind, meta, deletable, hidden,
                                execCount, classes, active, selected>>
                 /\ last'.run = {}
                 /\ last'.deleted = {}
                 /\ last'.tx = 0
                 /\ last'.found = NoCell
      ]_vars

\* a non-magic cell executed with success while its template is in the notebook
NonMagicExecutedWithTemplate ==
    /\ last.ev = "executed" /\ last.ok
    /\ kind[last.cell] = "code"
    /\ ~StartsWithMagic(text[last.cell])
    /\ findCellByTemplateString(cells, execCount[last.cell]) # NoCell

(* C8: when a successfully executed trigger is in safe mode and the cell G  *)
(* with its template is found, the handler requests no run, leaves          *)
(* G.inputHidden as it was, and leaves the cursor on G.                     *)

SafeModeLandsOnGenerated ==
    [][\A c \in Ids :
          (/\ ExecutedStep(c)
           /\ last'.found # NoCell
           /\ isCellChapyterMagicCellSafeMode(text[c]))
              => /\ last'.run = {}
                 /\ hidden'[last'.found] = hidden[last'.found]
                 /\ active' = findCellIndexById(cells', last'.found)
      ]_vars

(* C9 as stated: after deleteCell removed k >= 1 positions the cursor is    *)
(* firstDeletedIndex - k + 1, firstDeletedIndex the smallest of them.       *)

Min(S) == CHOOSE i \in S : \A j \in S : i <= j
Max(S) == CHOOSE i \in S : \A j \in S : j <= i

CursorAfterDeleteFromFirst ==
    (probe # <<>> /\ probe.fn = "deleteCell" /\ probe.deleted # {})
        => active = Min(probe.deleted) - Cardinality(probe.deleted) + 1

(* C9 amended: after deleteCell removed k >= 1 positions the cursor is      *)
(* lastDeletedIndex - k + 1, lastDeletedIndex the largest of them, brought  *)
(* into the range of the cells that remain (-1 when none remains).          *)

CursorAfterDeleteFromLast ==
    (probe # <<>> /\ probe.fn = "deleteCell" /\ probe.deleted # {})
        => LET k == Cardinality(probe.deleted)
               n == Len(probe.before) - k
               want == Max(probe.deleted) - k + 1
           IN  /\ Len(cells) = n
               /\ active = IF n = 0 THEN -1
                           ELSE IF want > n - 1 THEN n - 1 ELSE want

\* the 5-cell notebook with the positions {1, 3} deleted in one call
DeletedOneAndThreeOfFive ==
    /\ probe # <<>> /\ probe.fn = "deleteCell"
    /\ Len(probe.before) = 5
    /\ probe.deleted = {1, 3}
    /\ active = 2

(* C10: isCellChapyterMagicCell(cell, false) is true exactly when the text  *)
(* starts with %chat or %%chat; with strict = true exactly when moreover    *)
(* it does not start with %%chatonly; so strict implies non-strict.         *)

MagicDetection ==
    (probe # <<>> /\ probe.fn = "isCellChapyterMagicCell")
        => /\ probe.loose <=> StartsWithMagic(text[1])
           /\ probe.strict <=> (StartsWithMagic(text[1])
                                  /\ ~StartsWith(text[1], ChatOnlyPrefix))
           /\ probe.strict => probe.loose

\* a %%chatonly text: magic when not strict, not magic when strict
ChatOnlyClassified ==
    /\ probe # <<>> /\ probe.fn = "isCellChapyterMagicCell"
    /\ StartsWith(text[1], ChatOnlyPrefix)
    /\ probe.loose /\ ~probe.strict

(* C11: after selectCellById(notebook, id) with an id of the notebook the   *)
(* cursor is on the cell with that id; with an id that is absent or whose   *)
(* cell is already active no step is issued and the cursor stays.           *)

SelectReachesTarget ==
    (probe # <<>> /\ probe.fn = "selectCellById")
        => /\ InNotebook(probe.id) => active = findCellIndexById(cells, probe.id)
           /\ (~InNotebook(probe.id) \/ probe.cursor = findCellIndexById(cells, probe.id))
                 => (probe.calls = 0 /\ active = probe.cursor)

(* C12: deleteCell on a cell whose deletable flag is false leaves the cell  *)
(* sequence and the active index as they were, issues no transaction, and   *)
(* leaves the multi-selection empty.                                        *)

UndeletableCellIsKept ==
    (probe # <<>> /\ probe.fn = "deleteCell" /\ ~deletable[probe.cell])
        => /\ cells = probe.before
           /\ active = probe.cursor
           /\ probe.tx = 0
           /\ probe.deleted = {}
           /\ selected = {}

\* deleteCell was called on an undeletable cell while cells were selected
UndeletableCalledWithSelection ==
    /\ probe # <<>>
    /\ probe.fn = "deleteCell"
    /\ ~deletable[probe.cell]
    /\ probe.selection # {}
    /\ Len(probe.before) > 1
    /\ probe.cursor > 0

(* C13: deleteCell on a deletable cell of the notebook issues exactly one   *)
(* transaction, and the cell sequence afterwards is the previous one with   *)
(* exactly the positions of that cell removed, the other cells keeping      *)
(* their relative order.                                                    *)

DeletableCellIsRemoved ==
    (probe # <<>> /\ probe.fn = "deleteCell" /\ deletable[probe.cell])
        => /\ probe.tx = 1
           /\ probe.deleted = {i \in 0..(Len(probe.before) - 1) : W(probe.before, i) = probe.cell}
           /\ LET Other(x) == x # probe.cell
              IN  cells = SelectSeq(probe.before, Other)

\* a cell held at two positions, with other cells around them, was deleted
DeletedTwoPositionsAmongOthers ==
    /\ probe # <<>>
    /\ probe.fn = "deleteCell"
    /\ deletable[probe.cell]
    /\ Cardinality(probe.deleted) = 2
    /\ Len(cells) >= 2
    /\ \E i, j \in 1..Len(cells) : i < j /\ cells[i] # cells[j]

(* C14: when a strict trigger that is not tagged generated was executed     *)
(* with success and no code cell starts with the template of its execution  *)
(* count (or the count is null), the executed handler changes at most the   *)
(* trigger's record, which becomes {cellType: 'original'} if there was      *)
(* none; a record already there, its linkedCellId included, the records of  *)
(* the other cells, the cell sequence, the cursor and every inputHidden     *)
(* flag are unchanged.                                                      *)

NoTemplateCell(c) ==
    \/ execCount[c] = 0
    \/ \A g \in Present :
          kind[g] = "code" => ~StartsWith(FirstLine(text[g]), searchTempalte(execCount[c]))

NoMatchOnlyTagsOriginal ==
    [][\A c \in Ids :
          (/\ ExecutedStep(c) /\ status[c] = "ok"
           /\ isCellChapyterMagicCell(text[c], TRUE)
           /\ meta[c].cellType # "generated"
           /\ NoTemplateCell(c))
              => /\ meta' = [meta EXCEPT ![c] =
                               IF @ = NoMeta THEN [cellType |-> "original", linkedCellId |-> NoCell]
                               ELSE @]
                 /\ UNCHANGED <<cells, text, kind, deletable, hidden, execCount,
                                classes, active, selected>>
                 /\ last'.found = NoCell
                 /\ last'.run = {}
                 /\ last'.tx = 0
      ]_vars

\* the handler searched in vain for a trigger that keeps a record with a link
NoMatchKeepsExistingRecord ==
    /\ last.ev = "executed" /\ last.ok
    /\ last.searched /\ last.found = NoCell
    /\ meta[last.cell].cellType = "original"
    /\ meta[last.cell].linkedCellId # NoCell

(* C15: when the executed handler found the generated cell G of a trigger   *)
(* that is not in safe mode, the run request was issued with G the active   *)
(* cell, so the host was asked to run G and no other cell, wherever the     *)
(* cursor was and whichever cells have a hidden input; G.inputHidden is     *)
(* true afterwards.                                                         *)

RunRequestIsForGenerated ==
    (/\ last.ev = "executed"
     /\ last.found # NoCell
     /\ ~isCellChapyterMagicCellSafeMode(text[last.cell]))
        => /\ last.run = {last.found}
           /\ hidden[last.found]

(* C16: when the executed handler found the generated cell G of a trigger   *)
(* that is not in safe mode, the active index at the end of the handler is  *)
(* the index of G plus one, also when G is the last cell.                   *)

CursorEndsBelowGenerated ==
    (/\ last.ev = "executed"
     /\ last.found # NoCell
     /\ ~isCellChapyterMagicCellSafeMode(text[last.cell]))
        => active = findCellIndexById(cells, last.found) + 1

(* C17: in a notebook that starts without ChapyterCell records, over any    *)
(* sequence of scheduled and executed events and text edits, every cell     *)
(* that leaves the notebook is tagged 'generated' when it is deleted; a     *)
(* cell tagged 'original' or without a record is never deleted by the       *)
(* scheduled handler.                                                       *)

OnlyGeneratedCellsAreDeleted ==
    [][/\ \A d \in Present :
            (\A i \in 1..Len(cells') : cells'[i] # d) => meta[d].cellType = "generated"
       /\ \A d \in last'.deleted : d \in Present /\ meta[d].cellType = "generated"
      ]_vars

\* the scheduled handler deleted a cell in a notebook whose texts were edited
DeletedAfterEdit ==
    /\ last.ev = "scheduled"
    /\ last.tx = 1
    /\ last.deleted # {}
    /\ \A d \in last.deleted : ~InNotebook(d)
    /\ edits > 0

(* C18: a cell tagged generated with linkedCellId = A.id is never tagged    *)
(* again with linkedCellId = B.id for another trigger B while A still       *)
(* holds a link that names it; in particular, when a cell starts with the   *)
(* template of the same execution count after a kernel restart, the         *)
(* executed handler of B does not take over the generated cell of A.        *)

GeneratedCellIsNotTakenOver ==
    [][\A g \in Present : \A a \in Present :
          (/\ meta[g].cellType = "generated"
           /\ meta[g].linkedCellId = a
           /\ meta[a].cellType = "original"
           /\ meta[a].linkedCellId = g)
              => meta'[g].linkedCellId = a
      ]_vars

(* C19: over any sequence of runs (success with a match, success without a  *)
(* match, failure) a trigger cell carries the 'executing' class in exactly  *)
(* the states between its scheduled and its executed event, and never once  *)
(* its execution has finished.                                              *)

ExecutingClassMarksPendingRun ==
    [][\A c \in Present :
          (kind[c] = "code" /\ StartsWithMagic(text[c]) /\ meta[c].cellType # "generated")
              => /\ ScheduledStep(c) => CHAPYTER_CHAT_CELL_EXECUTING \in classes'[c]
                 /\ ExecutedStep(c) => CHAPYTER_CHAT_CELL_EXECUTING \notin classes'[c]
      ]_vars

====
